---- MODULE Spec2Model ----
(***************************************************************************)
(* A model of the notebook "The Typing package and usages.ipynb".          *)
(*                                                                         *)
(* The kernel is a namespace (name -> value) into which the sixteen code   *)
(* cells are executed, statement by statement.  A statement that evaluates *)
(* a name which is neither bound nor a builtin raises NameError and ends   *)
(* the cell, keeping what the earlier statements bound (Python 3.11, the   *)
(* version the notebook records: annotations of functions and of module    *)
(* level variables are evaluated when the statement runs).                 *)
(* The functions and classes the cells define are operators on Python      *)
(* values, and a caller may use them once the kernel has bound them.       *)
(* The third-party imports of cell 13 are taken to be installed, as they   *)
(* were when the notebook was last run (its execution counts 17 and 18).   *)
(***************************************************************************)
EXTENDS Integers, Sequences, FiniteSets, TLC

VARIABLES ns, status, runs, last, self, init, calls, frame

vars == <<ns, status, runs, last, self, init, calls, frame>>

(***************************************************************************)
(* Bounds of the model.                                                    *)
(***************************************************************************)
\* SpecAnyOrder: how many cell executions an out-of-order session makes.
MaxRuns == 3
\* How many Person objects a students list given to a constructor holds.
MaxStudents == 2
\* How many rows a table given to filter_data holds.
MaxRows == 2
\* How many method calls are made on one object.
MaxCalls == 2

(***************************************************************************)
(* Python values.                                                          *)
(***************************************************************************)
None == [t |-> "NoneType"]
PyInt(n) == [t |-> "int", i |-> n]
PyStr(s) == [t |-> "str", s |-> s]
PyBool(b) == [t |-> "bool", b |-> b]
PyList(xs) == [t |-> "list", items |-> xs]
TypingForm(s) == [t |-> "typing", s |-> s]
Function(s) == [t |-> "function", s |-> s]
Class(s) == [t |-> "type", s |-> s]
Module(s) == [t |-> "module", s |-> s]

\* isinstance(v, int): bool is a subclass of int.
IsInstanceInt(v) == v.t \in {"int", "bool"}
\* isinstance(v, str)
IsInstanceStr(v) == v.t = "str"
\* isinstance(v, cls) for a class defined by the notebook.
IsInstance(v, cls) == v.t = cls

\* The truth value of v, as `if v:` tests it.
Truthy(v) ==
    CASE v.t = "NoneType" -> FALSE
      [] v.t = "str" -> v.s # ""
      [] v.t = "int" -> v.i # 0
      [] v.t = "bool" -> v.b
      [] v.t = "list" -> v.items # <<>>
      [] OTHER -> TRUE

Digit(d) ==
    CASE d = 0 -> "0" [] d = 1 -> "1" [] d = 2 -> "2" [] d = 3 -> "3"
      [] d = 4 -> "4" [] d = 5 -> "5" [] d = 6 -> "6" [] d = 7 -> "7"
      [] d = 8 -> "8" [] d = 9 -> "9"

RECURSIVE NatToStr(_)
NatToStr(n) == IF n < 10 THEN Digit(n) ELSE NatToStr(n \div 10) \o Digit(n % 10)

\* str(n) of an int: decimal digits, a leading "-" when negative.
IntToStr(n) == IF n < 0 THEN "-" \o NatToStr(-n) ELSE NatToStr(n)

\* f"{v}": format(v, "") of a value in a formatted string literal.
Format(v) ==
    CASE v.t = "str" -> v.s
      [] v.t = "int" -> IntToStr(v.i)
      [] v.t = "bool" -> (IF v.b THEN "True" ELSE "False")
      [] v.t = "NoneType" -> "None"

\* The number a numeric value hashes and compares as (True == 1, False == 0).
NumOf(v) == IF v.t = "bool" THEN (IF v.b THEN 1 ELSE 0) ELSE v.i

\* a == b, as a dict compares its keys.
PyEq(a, b) ==
    IF IsInstanceInt(a) /\ IsInstanceInt(b) THEN NumOf(a) = NumOf(b)
    ELSE a.t = b.t /\ a = b

\* hash(v) is defined: a list is unhashable.
Hashable(v) == v.t # "list"

\* The outcome of a call: a returned value, or an exception raised.
Return(v) == [exc |-> "", value |-> v]
Raise(e) == [exc |-> e, value |-> None]

RECURSIVE Lookup(_, _, _)
Lookup(items, key, default) ==
    IF items = <<>> THEN default
    ELSE IF PyEq(items[1][1], key) THEN items[1][2]
    ELSE Lookup(Tail(items), key, default)

\* d.get(key, default) of a dict given as its <<key, value>> items.
DictGet(items, key, default) ==
    IF ~Hashable(key) THEN Raise("TypeError")
    ELSE Return(Lookup(items, key, default))

(***************************************************************************)
(* The kernel: statements, cells and their execution.                      *)
(***************************************************************************)
\* Names every kernel resolves without a binding.
Builtins == {"int", "str", "float"}

NoBind == [n \in {} |-> None]

\* A statement: the names it evaluates, then the names it binds.
Stmt(needs, binds) == [needs |-> needs, binds |-> binds, alias |-> <<>>]
\* target = source: binds target to the value source is bound to.
Alias(target, source) ==
    [needs |-> {source}, binds |-> NoBind, alias |-> <<target, source>>]
\* from typing import n1, n2, ...
ImportTyping(names) == Stmt({}, [n \in names |-> TypingForm(n)])
\* Mutant: annotations kept as strings, never evaluated when def runs.
Def_LazyAnnotations(f, annotations) == Stmt({}, f :> Function(f))

\* def f(...) -> ...: its annotations are evaluated, then f is bound.
Def(f, annotations) == Stmt(annotations, f :> Function(f))
\* class C(bases): its bases and its methods' annotations, then C is bound.
ClassDef(c, needs) == Stmt(needs, c :> Class(c))

\* Box.__init__(self, content): self.content = content
Box_init(content) == [t |-> "Box", content |-> content]

NumCells == 16

\* Mutant: the first cell's import without Optional.
Cell1_NoOptional == << ImportTyping({"List", "Tuple", "Dict"}) >>

\* from typing import List, Tuple, Dict, Optional
Cell1 == << ImportTyping({"List", "Tuple", "Dict", "Optional"}) >>

Cells == 1..NumCells

\* The statements of the c-th code cell of the notebook.
CellStatements(c) ==
    CASE c = 1 -> Cell1
      [] c = 2 -> << Stmt({}, "age" :> PyInt(25)), Stmt({"int"}, NoBind),
                     Stmt({}, "name" :> PyStr("Alice")), Stmt({"str"}, NoBind),
                     Stmt({}, "scores" :> PyList(<<PyInt(95), PyInt(85), PyInt(75)>>)),
                     Stmt({"List", "int"}, NoBind) >>
      [] c = 3 -> << Def("add", {"int"}), Def("greet", {"str"}) >>
      [] c = 4 -> << Def("get_user_id", {"str", "Optional", "int"}) >>
      [] c = 5 -> << ImportTyping({"Any"}) >>
      [] c = 6 -> << ClassDef("Person", {"str", "int"}) >>
      [] c = 7 -> << ClassDef("Classroom", {"List", "Person", "str"}) >>
      [] c = 8 -> << ClassDef("PersonWithNickname", {"str", "int", "Optional"}) >>
      [] c = 9 -> << ImportTyping({"TypeVar", "Generic"}),
                     Stmt({"TypeVar"}, "T" :> [t |-> "TypeVar", s |-> "T"]),
                     ClassDef("Box", {"Generic", "T"}),
                     Alias("box_of_ints", "Box"),
                     Stmt({"Box", "str"}, "box_of_strs" :> Box_init(PyStr("Hello"))) >>
      [] c = 10 -> << ImportTyping({"Union"}), Def("process", {"Union", "int", "str"}) >>
      [] c = 11 -> << ImportTyping({"NewType"}),
                      Stmt({"NewType", "int"}, "UserID" :> [t |-> "NewType", s |-> "UserID"]),
                      Def("get_user_name", {"UserID", "str"}) >>
      [] c = 12 -> << Stmt({"List", "Person"}, "StudentList" :> TypingForm("List[Person]")),
                      ClassDef("School", {"StudentList", "int"}) >>
      [] c = 13 -> << ImportTyping({"Any", "Tuple"}),
                      Stmt({}, "pd" :> Module("pandas")),
                      Stmt({}, "np" :> Module("numpy")),
                      Stmt({}, "plt" :> Module("matplotlib.pyplot")),
                      Stmt({}, "LinearRegression" :> Class("LinearRegression")),
                      Stmt({}, "train_test_split" :> Function("train_test_split")),
                      Stmt({}, "mean_squared_error" :> Function("mean_squared_error")) >>
      [] c = 14 -> << Def("load_data", {"str", "pd"}), Def("filter_data", {"pd", "float"}) >>
      [] c = 15 -> << Def("split_data", {"pd", "str", "Tuple"}),
                      Def("train_linear_regression", {"pd", "LinearRegression"}),
                      Def("evaluate_model", {"LinearRegression", "pd", "float"}) >>
      [] c = 16 -> << Def("plot_regression_results", {"pd", "np"}) >>

\* Name resolution: the kernel's globals, then the builtins.
Resolves(name, n) == name \in DOMAIN n \/ name \in Builtins

\* The namespace after a statement whose names all resolved.
Bound(st, n) ==
    LET n1 == st.binds @@ n
    IN IF st.alias = <<>> THEN n1 ELSE (st.alias[1] :> n[st.alias[2]]) @@ n1

RECURSIVE RunStatements(_, _)
\* Runs statements in order from namespace n; the first one that evaluates an
\* unresolved name raises NameError and ends the run, earlier bindings kept.
RunStatements(stmts, n) ==
    IF stmts = <<>> THEN [ns |-> n, exc |-> ""]
    ELSE IF \E name \in stmts[1].needs : ~Resolves(name, n)
         THEN [ns |-> n, exc |-> "NameError"]
         ELSE RunStatements(Tail(stmts), Bound(stmts[1], n))

\* The outcome of executing cell c in namespace n.
RunCell(c, n) == RunStatements(CellStatements(c), n)

(***************************************************************************)
(* The functions and classes the cells define.                             *)
(***************************************************************************)
\* Mutant: users[username], which raises KeyError on a miss.
get_user_id_Subscript(username) ==
    IF username \in {PyStr("Alice"), PyStr("Bob")}
    THEN DictGet(<< <<PyStr("Alice"), PyInt(1)>>, <<PyStr("Bob"), PyInt(2)>> >>,
                 username, None)
    ELSE Raise("KeyError")

\* def get_user_id(username): users.get(username)
get_user_id(username) ==
    DictGet(<< <<PyStr("Alice"), PyInt(1)>>, <<PyStr("Bob"), PyInt(2)>> >>,
            username, None)

\* UserID = NewType('UserID', int): at run time UserID(x) is x.
UserID(x) == x

\* Mutant: users.get(user_id), the default left out.
get_user_name_NoDefault(user_id) ==
    DictGet(<< <<UserID(PyInt(1)), PyStr("Alice")>>, <<UserID(PyInt(2)), PyStr("Bob")>> >>,
            user_id, None)

\* def get_user_name(user_id): users.get(user_id, "Unknown")
get_user_name(user_id) ==
    DictGet(<< <<UserID(PyInt(1)), PyStr("Alice")>>, <<UserID(PyInt(2)), PyStr("Bob")>> >>,
            user_id, PyStr("Unknown"))

\* Mutant: the second branch tests the wrong type, so a str falls through.
process_WrongElif(value) ==
    IF IsInstanceInt(value)
    THEN Return(PyStr("Processing number " \o Format(value)))
    ELSE IF value.t = "float"
    THEN Return(PyStr("Processing string '" \o Format(value) \o "'"))
    ELSE Return(None)

\* def process(value): the int branch, else the str branch, else the implicit
\* return None at the end of the body.
process(value) ==
    IF IsInstanceInt(value)
    THEN Return(PyStr("Processing number " \o Format(value)))
    ELSE IF IsInstanceStr(value)
    THEN Return(PyStr("Processing string '" \o Format(value) \o "'"))
    ELSE Return(None)

\* Person.__init__(self, name, age)
Person_init(name, age) == [t |-> "Person", name |-> name, age |-> age]

\* Person.introduce(self): the object after the call and what it returns.
Person_introduce(obj) ==
    [self |-> obj,
     out |-> Return(PyStr("My name is " \o Format(obj.name) \o ", and I am "
                          \o Format(obj.age) \o " years old."))]

\* PersonWithNickname.__init__(self, name, age, nickname=None)
PersonWithNickname_init(name, age, nickname) ==
    [t |-> "PersonWithNickname", name |-> name, age |-> age, nickname |-> nickname]

\* Mutant: `if self.nickname is not None:`, which takes the empty string too.
PersonWithNickname_introduce_IsNotNone(obj) ==
    [self |-> obj,
     out |-> IF obj.nickname # None
             THEN Return(PyStr("My name is " \o Format(obj.name)
                               \o ", but you can call me " \o Format(obj.nickname) \o "."))
             ELSE Return(PyStr("My name is " \o Format(obj.name) \o ", and I am "
                               \o Format(obj.age) \o " years old."))]

\* PersonWithNickname.introduce(self): `if self.nickname:` tests its truth value.
PersonWithNickname_introduce(obj) ==
    [self |-> obj,
     out |-> IF Truthy(obj.nickname)
             THEN Return(PyStr("My name is " \o Format(obj.name)
                               \o ", but you can call me " \o Format(obj.nickname) \o "."))
             ELSE Return(PyStr("My name is " \o Format(obj.name) \o ", and I am "
                               \o Format(obj.age) \o " years old."))]

\* Classroom.__init__(self, students): the list is stored, not copied.
Classroom_init(students) == [t |-> "Classroom", students |-> students]

\* Mutant: the names collected by popping the students off the list.
Classroom_get_student_names_Pop(obj) ==
    [self |-> [obj EXCEPT !.students = PyList(<<>>)],
     out |-> Return(PyList([k \in 1..Len(obj.students.items) |->
                               obj.students.items[k].name]))]

\* Classroom.get_student_names(self): [student.name for student in self.students]
Classroom_get_student_names(obj) ==
    [self |-> obj,
     out |-> Return(PyList([k \in 1..Len(obj.students.items) |->
                               obj.students.items[k].name]))]

\* School.__init__(self, students)
School_init(students) == [t |-> "School", students |-> students]

\* School.get_total_students(self): len(self.students)
School_get_total_students(obj) ==
    [self |-> obj, out |-> Return(PyInt(Len(obj.students.items)))]

\* Box.get_content(self): return self.content
Box_get_content(obj) == [self |-> obj, out |-> Return(obj.content)]

\* A pandas DataFrame with a 'value' column: its rows, each with its index label.
DataFrame(rows) == [t |-> "DataFrame", rows |-> rows]

\* Mutant: df['value'] >= threshold.
Mask_GreaterEqual(df, threshold) ==
    [k \in 1..Len(df.rows) |-> df.rows[k].value >= threshold]

\* df['value'] > threshold: the boolean mask, one entry per row.
Mask(df, threshold) == [k \in 1..Len(df.rows) |-> df.rows[k].value > threshold]

RECURSIVE Take(_, _, _)
\* The rows of `rows` (from position k on) whose mask entry is True, in order.
Take(rows, mask, k) ==
    IF k > Len(rows) THEN <<>>
    ELSE (IF mask[k] THEN <<rows[k]>> ELSE <<>>) \o Take(rows, mask, k + 1)

\* def filter_data(df, threshold): df[df['value'] > threshold], a new table;
\* `df` is the argument after the call.
filter_data(df, threshold) ==
    [df |-> df,
     out |-> Return(DataFrame(Take(df.rows, Mask(df, threshold), 1)))]

NoObj == [t |-> "NoObj"]
NoFrame == [fn |-> "", args |-> <<>>, out |-> Return(None), after |-> <<>>]

Init ==
    /\ ns = NoBind
    /\ status = [c \in Cells |-> "not_run"]
    /\ runs = 0
    /\ last = 0
    /\ self = NoObj
    /\ init = NoFrame
    /\ calls = 0
    /\ frame = NoFrame

\* The kernel executes cell c.
ExecuteCell(c) ==
    LET r == RunCell(c, ns)
    IN /\ ns' = r.ns
       /\ status' = [status EXCEPT ![c] = IF r.exc = "" THEN "ok" ELSE r.exc]
       /\ runs' = runs + 1
       /\ last' = c
       /\ UNCHANGED <<self, init, calls, frame>>

\* Run All: the next cell, top to bottom, each cell once.
ExecuteNext ==
    /\ runs < NumCells
    /\ ExecuteCell(runs + 1)

\* A session that executes any cell at any time, re-executions included.
ExecuteAny ==
    /\ runs < MaxRuns
    /\ \E c \in Cells : ExecuteCell(c)

(***************************************************************************)
(* The inputs callers give.                                                *)
(***************************************************************************)
SeqsUpTo(S, n) == UNION {[1..k -> S] : k \in 0..n}

\* Arguments to get_user_id: strings (its declared type), and a list.
Usernames ==
    {PyStr("Alice"), PyStr("Bob"), PyStr("Carol"), PyStr("alice"), PyStr(""),
     PyList(<<>>)}

\* Arguments to get_user_name.
UserIds == {PyInt(0), PyInt(1), PyInt(2), PyInt(3), PyInt(-1), PyBool(TRUE)}

\* Arguments to process: ints and strs (its declared type), and None.
ProcessInputs ==
    {PyInt(-3), PyInt(0), PyInt(5), PyInt(12), PyBool(TRUE),
     PyStr(""), PyStr("abc"), PyStr("12"), None}

Names == {PyStr("Alice"), PyStr("Bob")}
Ages == {PyInt(25), PyInt(30)}
Nicknames == {None, PyStr(""), PyStr("Al")}
Contents == {PyInt(5), PyStr("Hello"), None, PyList(<<PyInt(1), PyInt(2)>>)}

\* The Person objects put into students lists.
Students == {Person_init(PyStr("Alice"), PyInt(25)), Person_init(PyStr("Bob"), PyInt(30))}
StudentLists == {PyList(ps) : ps \in SeqsUpTo(Students, MaxStudents)}

Values == {5, 10, 15}
Thresholds == {10}
\* Tables with a RangeIndex 0, 1, ... and a 'value' column.
Tables ==
    {DataFrame([k \in 1..Len(vs) |-> [index |-> k - 1, value |-> vs[k]]]) :
        vs \in SeqsUpTo(Values, MaxRows)}

(***************************************************************************)
(* Calls, made by a caller once the kernel has bound the name.             *)
(***************************************************************************)
Defined(name) == name \in DOMAIN ns /\ ns[name] \in {Function(name), Class(name)}

\* A call of a module-level function: it only returns, whatever object the
\* caller holds.
Call(fn, args, out) ==
    /\ Defined(fn)
    /\ frame' = [fn |-> fn, args |-> args, out |-> out, after |-> args]
    /\ UNCHANGED <<ns, status, runs, last, self, init, calls>>

\* obj = cls(args): the caller's object is the new one.
New(cls, args, obj) ==
    /\ Defined(cls)
    /\ self' = obj
    /\ init' = [fn |-> cls, args |-> args, out |-> Return(obj), after |-> args]
    /\ calls' = 0
    /\ frame' = [fn |-> cls, args |-> args, out |-> Return(obj), after |-> args]
    /\ UNCHANGED <<ns, status, runs, last>>

\* obj.method(): r is the method applied to the caller's object.
Method(cls, method, r) ==
    /\ Defined(cls)
    /\ calls < MaxCalls
    /\ self' = r.self
    /\ calls' = calls + 1
    /\ frame' = [fn |-> method, args |-> <<self>>, out |-> r.out, after |-> <<r.self>>]
    /\ UNCHANGED <<ns, status, runs, last, init>>

CallGetUserId == \E u \in Usernames : Call("get_user_id", <<u>>, get_user_id(u))

CallGetUserName == \E u \in UserIds : Call("get_user_name", <<u>>, get_user_name(u))

CallProcess == \E v \in ProcessInputs : Call("process", <<v>>, process(v))

CallFilterData ==
    \E df \in Tables, th \in Thresholds :
        LET r == filter_data(df, th)
        IN /\ Defined("filter_data")
           /\ frame' = [fn |-> "filter_data", args |-> <<df, th>>, out |-> r.out,
                        after |-> <<r.df, th>>]
           /\ UNCHANGED <<ns, status, runs, last, self, init, calls>>

NewPerson ==
    \E n \in Names, a \in Ages : New("Person", <<n, a>>, Person_init(n, a))

NewPersonWithNickname ==
    \E n \in Names, a \in Ages, k \in Nicknames :
        New("PersonWithNickname", <<n, a, k>>, PersonWithNickname_init(n, a, k))

NewClassroom ==
    /\ Defined("Person")
    /\ \E l \in StudentLists : New("Classroom", <<l>>, Classroom_init(l))

NewSchool ==
    /\ Defined("Person")
    /\ \E l \in StudentLists : New("School", <<l>>, School_init(l))

NewBox == \E c \in Contents : New("Box", <<c>>, Box_init(c))

Introduce ==
    /\ IsInstance(self, "Person")
    /\ Method("Person", "Person.introduce", Person_introduce(self))

IntroduceWithNickname ==
    /\ IsInstance(self, "PersonWithNickname")
    /\ Method("PersonWithNickname", "PersonWithNickname.introduce",
              PersonWithNickname_introduce(self))

GetStudentNames ==
    /\ IsInstance(self, "Classroom")
    /\ Method("Classroom", "Classroom.get_student_names", Classroom_get_student_names(self))

GetTotalStudents ==
    /\ IsInstance(self, "School")
    /\ Method("School", "School.get_total_students", School_get_total_students(self))

GetContent ==
    /\ IsInstance(self, "Box")
    /\ Method("Box", "Box.get_content", Box_get_content(self))

\* The notebook run top to bottom, with calls made along the way.
Next ==
    \/ ExecuteNext
    \/ CallGetUserId
    \/ CallGetUserName
    \/ CallProcess
    \/ CallFilterData
    \/ NewPerson
    \/ NewPersonWithNickname
    \/ NewClassroom
    \/ NewSchool
    \/ NewBox
    \/ Introduce
    \/ IntroduceWithNickname
    \/ GetStudentNames
    \/ GetTotalStudents
    \/ GetContent

Spec == Init /\ [][Next]_vars

\* The cells executed in any order.
NextAnyOrder == ExecuteAny

SpecAnyOrder == Init /\ [][NextAnyOrder]_vars

(***************************************************************************)
(* Properties.                                                             *)
(***************************************************************************)
Range(f) == {f[k] : k \in DOMAIN f}

\* C1: get_user_id(username) returns the mapped id for the keys "Alice" (1)
\* and "Bob" (2), and for every other string returns None; it raises nothing
\* and leaves its argument and the caller's state as they were.
C1_GetUserIdLookup ==
    (frame.fn = "get_user_id" /\ IsInstanceStr(frame.args[1])) =>
        /\ frame.out.exc = ""
        /\ frame.args[1] = PyStr("Alice") => frame.out.value = PyInt(1)
        /\ frame.args[1] = PyStr("Bob") => frame.out.value = PyInt(2)
        /\ frame.args[1] \notin {PyStr("Alice"), PyStr("Bob")} => frame.out.value = None
        /\ frame.after = frame.args

\* C1 witness: a lookup miss has returned None.
C1_Witness ==
    /\ frame.fn = "get_user_id"
    /\ frame.args = <<PyStr("Carol")>>
    /\ frame.out = Return(None)

\* C6: get_user_name(user_id) never raises and never returns None: it returns
\* the string "Alice" for 1, "Bob" for 2 and "Unknown" for every other id.
C6_GetUserNameTotal ==
    (frame.fn = "get_user_name" /\ IsInstanceInt(frame.args[1])) =>
        /\ frame.out.exc = ""
        /\ frame.out.value # None
        /\ frame.out.value.t = "str"
        /\ frame.out.value.s =
              (IF NumOf(frame.args[1]) = 1 THEN "Alice"
               ELSE IF NumOf(frame.args[1]) = 2 THEN "Bob"
               ELSE "Unknown")

\* C6 witness: an id that is no key has given "Unknown".
C6_Witness ==
    /\ frame.fn = "get_user_name"
    /\ frame.args = <<PyInt(3)>>
    /\ frame.out = Return(PyStr("Unknown"))

\* C5: for every int and every str, process returns a string: "Processing
\* number <value>" for an int, "Processing string '<value>'" for a str, one
\* branch for each value.
C5_ProcessBranches ==
    (frame.fn = "process" /\ (IsInstanceInt(frame.args[1]) \/ IsInstanceStr(frame.args[1]))) =>
        LET v == frame.args[1]
            r == frame.out
        IN /\ r.exc = ""
           /\ r.value.t = "str"
           /\ IsInstanceInt(v) => r.value.s = "Processing number " \o Format(v)
           /\ IsInstanceStr(v) => r.value.s = "Processing string '" \o v.s \o "'"
           /\ ~(IsInstanceInt(v) /\ IsInstanceStr(v))
           /\ v = PyInt(-3) => r.value.s = "Processing number -3"
           /\ v = PyInt(0) => r.value.s = "Processing number 0"
           /\ v = PyInt(12) => r.value.s = "Processing number 12"
           /\ v = PyStr("12") => r.value.s = "Processing string '12'"
           /\ v = PyStr("") => r.value.s = "Processing string ''"

\* C5 witness: both branches' results, here the str one.
C5_Witness ==
    /\ frame.fn = "process"
    /\ frame.args = <<PyStr("abc")>>
    /\ frame.out = Return(PyStr("Processing string 'abc'"))

\* The sentence Person.introduce gives for a name and an age.
PersonSentence(name, age) ==
    "My name is " \o name.s \o ", and I am " \o IntToStr(age.i) \o " years old."

\* C8: PersonWithNickname.introduce gives the nickname sentence exactly when
\* nickname is a non-empty string; when nickname is None or "" it returns what
\* Person.introduce returns for the same name and age.
C8_NicknameIntroduce ==
    frame.fn = "PersonWithNickname.introduce" =>
        LET o == frame.args[1]
            r == frame.out
            nonEmpty == o.nickname.t = "str" /\ o.nickname.s # ""
        IN /\ r.exc = ""
           /\ nonEmpty <=>
                r.value = PyStr("My name is " \o o.name.s \o ", but you can call me "
                                \o Format(o.nickname) \o ".")
           /\ ~nonEmpty => r = Person_introduce(Person_init(o.name, o.age)).out
           /\ ~nonEmpty => r.value.s = PersonSentence(o.name, o.age)

\* C8 witness: introduce called with the empty nickname gave Person's sentence.
C8_Witness ==
    /\ frame.fn = "PersonWithNickname.introduce"
    /\ frame.args[1].nickname = PyStr("")
    /\ frame.args[1].name = PyStr("Alice")
    /\ frame.args[1].age = PyInt(25)
    /\ frame.out = Return(PyStr("My name is Alice, and I am 25 years old."))

\* C3: whatever methods have been called on it, each field of the caller's
\* object holds the value its constructor was given (a students list with the
\* same Person objects, each with its name and age).
C3_FieldsAsConstructed ==
    self # NoObj =>
        /\ init.fn = self.t
        /\ CASE self.t = "Person" ->
                    self.name = init.args[1] /\ self.age = init.args[2]
             [] self.t = "PersonWithNickname" ->
                    /\ self.name = init.args[1]
                    /\ self.age = init.args[2]
                    /\ self.nickname = init.args[3]
             [] self.t \in {"Classroom", "School"} -> self.students = init.args[1]
             [] self.t = "Box" -> self.content = init.args[1]

\* C3 witness: two calls of get_student_names on a Classroom of two students.
C3_Witness ==
    /\ IsInstance(self, "Classroom")
    /\ calls >= 2
    /\ frame.fn = "Classroom.get_student_names"
    /\ Len(self.students.items) = 2
    /\ frame.out = Return(PyList(<<PyStr("Alice"), PyStr("Bob")>>))

\* C4: filter_data(df, threshold) returns exactly the rows of df whose
\* 'value' is strictly greater than threshold, in their original order, and
\* leaves df as it was.
C4_FilterData ==
    frame.fn = "filter_data" =>
        LET df == frame.args[1]
            th == frame.args[2]
            res == frame.out.value
            kept == {j \in 1..Len(df.rows) : df.rows[j].value > th}
        IN /\ frame.out.exc = ""
           /\ res.t = "DataFrame"
           /\ \A k \in 1..Len(res.rows) :
                 res.rows[k] \in Range(df.rows) /\ res.rows[k].value > th
           /\ \A j \in kept : df.rows[j] \in Range(res.rows)
           /\ Len(res.rows) = Cardinality(kept)
           /\ \A k \in 1..Len(res.rows) - 1 : res.rows[k].index < res.rows[k + 1].index
           /\ frame.after = <<df, th>>

\* C4 witness: a row equal to the threshold was dropped, the one above kept.
C4_Witness ==
    /\ frame.fn = "filter_data"
    /\ frame.args[2] = 10
    /\ frame.args[1] = DataFrame(<<[index |-> 0, value |-> 10], [index |-> 1, value |-> 15]>>)
    /\ frame.out = Return(DataFrame(<<[index |-> 1, value |-> 15]>>))

\* C7: once the generic-class cell has run, box_of_ints and box_of_strs are
\* both Box instances, and get_content on a Box returns the content the Box
\* was built with.
C7_BoxObjects ==
    /\ status[9] = "ok" =>
          IsInstance(ns["box_of_ints"], "Box") /\ IsInstance(ns["box_of_strs"], "Box")
    /\ frame.fn = "Box.get_content" => frame.out = Return(init.args[1])

\* The round trip alone: get_content returns the constructor's content.
BoxRoundTrip ==
    frame.fn = "Box.get_content" => frame.out = Return(init.args[1])

\* What the generic-class cell binds: box_of_ints is the class Box itself.
BoxCellBindings ==
    status[9] = "ok" =>
        /\ ns["box_of_ints"] = Class("Box")
        /\ ns["box_of_strs"] = Box_init(PyStr("Hello"))

\* C9: run top to bottom, no cell raises NameError: the cells run so far all
\* ended "ok", in order, and the run reaches the last cell.
C9_TopToBottomRuns ==
    /\ \A c \in Cells : status[c] = (IF c <= runs THEN "ok" ELSE "not_run")
    /\ last = runs
    /\ runs < NumCells => ENABLED ExecuteNext

\* C9 witness: the last cell has run.
C9_Witness ==
    /\ runs = NumCells
    /\ status[NumCells] = "ok"
    /\ "plot_regression_results" \in DOMAIN ns

\* C2 as stated: the cells are independent, so in any order of execution
\* (a single cell in a fresh kernel included) every cell succeeds.
C2_CellsIndependent ==
    \A c \in Cells : status[c] \in {"not_run", "ok"}

\* The cells that evaluate no name bound by another cell.
SelfContained == {1, 3, 5, 6, 9, 10, 11, 13}

\* For the other cells, the cells that bind the names they evaluate.
Providers(c) ==
    CASE c \in {2, 4, 8} -> {1}
      [] c \in {7, 12} -> {1, 6}
      [] c \in {14, 15, 16} -> {13}
      [] OTHER -> {}

\* C2 amended: cells 1, 3, 5, 6, 9, 10, 11 and 13 succeed in any order; each
\* of the others succeeds exactly when the cells binding the names it uses
\* have run, and so raises NameError when run alone in a fresh kernel.
C2_DependentCells ==
    /\ \A c \in SelfContained : status[c] \in {"not_run", "ok"}
    /\ last # 0 => (status[last] = "ok" <=> \A p \in Providers(last) : status[p] = "ok")
    /\ runs = 1 => (status[last] = "ok" <=> last \in SelfContained)

\* C2 witness: cell 2 failed before cell 1 had run, and after cell 1 cell 4
\* succeeded.
C2_Witness ==
    /\ status[2] = "NameError"
    /\ status[1] = "ok"
    /\ status[4] = "ok"
    /\ last = 4

====
